---- MODULE Spec2Model ----
(***************************************************************************)
(* State-machine model of the Bluetooth tool's core:                       *)
(*   - DataHandler's framing codec (calculate_checksum, calculate_crc16,   *)
(*     pack_data, unpack_data)             src/src/core/data_handler.py    *)
(*   - Connector's connection map with connect-with-retry and disconnect   *)
(*                                         src/src/core/connector.py       *)
(* Three specifications share the module: SpecCodec drives pack/unpack on  *)
(* bounded payloads and frames, SpecCrc runs the CRC loop bit by bit, and  *)
(* SpecConnector runs connect/disconnect calls against a transport whose   *)
(* open and close outcomes are chosen nondeterministically.                *)
(***************************************************************************)
EXTENDS Integers, Sequences, FiniteSets, TLC

\* ------------------------------------------------------------------------
\* Bounds
\* ------------------------------------------------------------------------
MaxPayloadLen == 3
MaxFrameLen == 5
MaxCrcLen == 2
MaxRetryCount == 3
MaxHandles == 3
MaxEnqueued == 2
MaxLoops == 2

\* Byte values the inputs are drawn from (0..255 is the full range).
ByteSamples == {0, 1, 2, 255}

RECURSIVE SeqsUpTo(_, _)
SeqsUpTo(S, n) ==
    IF n = 0 THEN {<<>>}
    ELSE LET shorter == SeqsUpTo(S, n - 1)
         IN shorter \cup {Append(s, b) : s \in {x \in shorter : Len(x) = n - 1}, b \in S}

Payloads == SeqsUpTo(ByteSamples, MaxPayloadLen)
RawFrames == SeqsUpTo(ByteSamples, MaxFrameLen)

\* ------------------------------------------------------------------------
\* Python sequence primitives used by the codec
\* ------------------------------------------------------------------------
\* Python slice bound normalisation: negative bounds count from the end,
\* everything is clamped to 0..n.
SliceBound(i, n) ==
    IF i < 0 THEN (IF i + n < 0 THEN 0 ELSE i + n)
    ELSE IF i > n THEN n ELSE i

\* s[lo:hi]
PySlice(s, lo, hi) ==
    LET n == Len(s)
        a == SliceBound(lo, n)
        b == SliceBound(hi, n)
    IN IF a >= b THEN <<>> ELSE SubSeq(s, a + 1, b)

RECURSIVE SumBytes(_)
SumBytes(s) == IF s = <<>> THEN 0 ELSE s[1] + SumBytes(Tail(s))

\* n.to_bytes(4, "big")
to_bytes4(n) ==
    << (n \div 16777216) % 256, (n \div 65536) % 256, (n \div 256) % 256, n % 256 >>

\* int.from_bytes(b, "big"). Python integers are unbounded; values of 2^30
\* and more are represented by 2^30, which lies far above every frame
\* length of the model, so every comparison with a length and every slice
\* bound behaves as with the exact value.
IntCap == 2^30

RECURSIVE big_endian(_)
big_endian(b) ==
    IF b = <<>> THEN 0 ELSE big_endian(SubSeq(b, 1, Len(b) - 1)) * 256 + b[Len(b)]

from_bytes(b) ==
    IF Len(b) = 4 /\ b[1] >= 64 THEN IntCap ELSE big_endian(b)

\* ------------------------------------------------------------------------
\* Codec results: a returned payload, the failure value None, or an
\* exception leaving the function.
\* ------------------------------------------------------------------------
ReturnData(d) == [kind |-> "payload", data |-> d]
ReturnNone == [kind |-> "none", data |-> <<>>]
Raised == [kind |-> "raise", data |-> <<>>]
NoResult == [kind |-> "pending", data |-> <<>>]

\* a & b on non-negative integers
RECURSIVE BitAnd(_, _)
BitAnd(a, b) ==
    IF a = 0 \/ b = 0 THEN 0
    ELSE ((a % 2) * (b % 2)) + 2 * BitAnd(a \div 2, b \div 2)

calculate_checksum_unmasked(data) == SumBytes(data)

\* sum(data) & 0xFF
calculate_checksum(data) == BitAnd(SumBytes(data), 255)

pack_data_checksum_first(data, include_checksum, include_length) ==
    (IF include_length THEN to_bytes4(Len(data)) ELSE <<>>)
        \o (IF include_checksum THEN <<calculate_checksum(data)>> ELSE <<>>)
        \o data

pack_data(data, include_checksum, include_length) ==
    (IF include_length THEN to_bytes4(Len(data)) ELSE <<>>)
        \o data
        \o (IF include_checksum THEN <<calculate_checksum(data)>> ELSE <<>>)

\* The body of unpack_data's try block.
unpack_body_no_verify(packet, has_checksum, has_length) ==
    IF has_length /\ Len(packet) < 4 THEN ReturnNone
    ELSE LET offset == IF has_length THEN 4 ELSE 0
             length == IF has_length THEN from_bytes(PySlice(packet, 0, 4))
                       ELSE Len(packet)
         IN IF has_checksum
            THEN IF Len(packet) = 0 THEN Raised
                 ELSE ReturnData(PySlice(packet, offset, -1))
            ELSE ReturnData(PySlice(packet, offset, offset + length))

unpack_body(packet, has_checksum, has_length) ==
    IF has_length /\ Len(packet) < 4 THEN ReturnNone
    ELSE LET offset == IF has_length THEN 4 ELSE 0
             length == IF has_length THEN from_bytes(PySlice(packet, 0, 4))
                       ELSE Len(packet)
         IN IF has_checksum
            THEN \* packet[-1] raises IndexError on an empty packet
                 IF Len(packet) = 0 THEN Raised
                 ELSE LET checksum == packet[Len(packet)]
                          data == PySlice(packet, offset, -1)
                      IN IF calculate_checksum(data) # checksum
                         THEN ReturnNone
                         ELSE ReturnData(data)
            ELSE ReturnData(PySlice(packet, offset, offset + length))

\* try: ... except Exception: return None
unpack_except_reraise(r) == r

unpack_except(r) == IF r.kind = "raise" THEN ReturnNone ELSE r

unpack_data(packet, has_checksum, has_length) ==
    unpack_except(unpack_body(packet, has_checksum, has_length))

\* ------------------------------------------------------------------------
\* CRC16 (bitwise)
\* ------------------------------------------------------------------------
RECURSIVE Xor(_, _)
Xor(a, b) ==
    IF a = 0 THEN b
    ELSE IF b = 0 THEN a
    ELSE (((a % 2) + (b % 2)) % 2) + 2 * Xor(a \div 2, b \div 2)

CrcInit == 65535
CrcPoly == 40961

\* one pass of the inner loop
crc_shift_unconditional(crc) == Xor(crc \div 2, CrcPoly)

crc_shift(crc) ==
    IF crc % 2 = 1 THEN Xor(crc \div 2, CrcPoly) ELSE crc \div 2

\* b"123456789"
CheckInput == <<49, 50, 51, 52, 53, 54, 55, 56, 57>>
CrcInputs == SeqsUpTo(ByteSamples, MaxCrcLen) \cup {CheckInput}


\* ------------------------------------------------------------------------
\* State
\* ------------------------------------------------------------------------
VARIABLES
    \* codec run: the caller's payload and flags, the frame on the wire,
    \* and what unpack_data handed back
    codec_pc, origin, payload, include_checksum, include_length,
    packet, tamper_byte, unpacked,
    \* calculate_crc16's loop: data, byte index, bit counter, running crc
    crc_pc, crc_data, crc_idx, crc_bit, crc,
    \* Connector: host platform, retry_count, the _connections dict, the
    \* next fresh transport handle, and per caller thread the position in
    \* connect/disconnect, the running call and the previous finished call
    platform, retry_count, connections, next_handle, pc, call, last,
    \* the handles the close primitive was called with, in call order
    closed_handles,
    \* BluetoothManager: the keys of its _connected_devices dict
    connected_devices,
    \* the dict a caller got from get_connections() and may change at will
    snapshot,
    \* DataHandler: the two observer callbacks, the _receive_queues and
    \* _receive_threads dicts, per device what the listener enqueued and
    \* what receive handed to callers since the queue was created, and the
    \* caller's position, running call and previous finished call
    on_data_sent, on_data_received, receive_queues, receive_threads,
    enqueued, delivered, chan_pc, chan_call, chan_prev,
    \* BluetoothManager: its own data-received observer
    mgr_on_data_received,
    \* per device the number of listener loops that are running, and per
    \* calling thread the position in start_listening and the running call
    loops, listen_pc, listen_call,
    \* DeviceScanner: the _scanning flag and, per calling thread, the
    \* position in scan and the running call
    scanning, scan_pc, scan_call

codec_vars == <<codec_pc, origin, payload, include_checksum, include_length,
                packet, tamper_byte, unpacked>>
crc_vars == <<crc_pc, crc_data, crc_idx, crc_bit, crc>>
conn_vars == <<platform, retry_count, connections, next_handle, pc, call, last,
               closed_handles, connected_devices, snapshot>>
chan_vars == <<on_data_sent, on_data_received, receive_queues, receive_threads,
               enqueued, delivered, chan_pc, chan_call, chan_prev,
               mgr_on_data_received, loops, listen_pc, listen_call>>
listen_vars == <<loops, listen_pc, listen_call>>
scan_vars == <<scanning, scan_pc, scan_call>>
vars == <<codec_vars, crc_vars, conn_vars, chan_vars, scan_vars>>

\* ------------------------------------------------------------------------
\* Codec runs
\* ------------------------------------------------------------------------
CodecIdle ==
    /\ codec_pc = "off"
    /\ origin = "none"
    /\ payload = <<>>
    /\ include_checksum = FALSE
    /\ include_length = FALSE
    /\ packet = <<>>
    /\ tamper_byte = 0
    /\ unpacked = NoResult

\* Either a caller holds a payload to pack, or an arbitrary byte string
\* arrives as a frame.
CodecInit ==
    /\ include_checksum \in BOOLEAN
    /\ include_length \in BOOLEAN
    /\ tamper_byte = 0
    /\ unpacked = NoResult
    /\ \/ /\ origin = "packed"
          /\ codec_pc = "input"
          /\ payload \in Payloads
          /\ packet = <<>>
       \/ /\ origin = "raw"
          /\ codec_pc = "framed"
          /\ payload = <<>>
          /\ packet \in RawFrames

Pack ==
    /\ codec_pc = "input"
    /\ packet' = pack_data(payload, include_checksum, include_length)
    /\ codec_pc' = "framed"
    /\ UNCHANGED <<origin, payload, include_checksum, include_length,
                   tamper_byte, unpacked, crc_vars, conn_vars, chan_vars, scan_vars>>

\* The trailing checksum byte of a packed frame is overwritten in transit.
Tamper(b) ==
    /\ codec_pc = "framed"
    /\ origin = "packed"
    /\ include_checksum
    /\ packet' = [packet EXCEPT ![Len(packet)] = b]
    /\ tamper_byte' = b
    /\ origin' = "tampered"
    /\ UNCHANGED <<codec_pc, payload, include_checksum, include_length, unpacked,
                   crc_vars, conn_vars, chan_vars, scan_vars>>

Unpack ==
    /\ codec_pc = "framed"
    /\ unpacked' = unpack_data(packet, include_checksum, include_length)
    /\ codec_pc' = "unpacked"
    /\ UNCHANGED <<origin, payload, include_checksum, include_length,
                   packet, tamper_byte, crc_vars, conn_vars, chan_vars, scan_vars>>

CodecNext ==
    \/ Pack
    \/ \E b \in ByteSamples : Tamper(b)
    \/ Unpack

\* ------------------------------------------------------------------------
\* calculate_crc16, one loop step per action
\* ------------------------------------------------------------------------
CrcIdle ==
    /\ crc_pc = "off"
    /\ crc_data = <<>>
    /\ crc_idx = 1
    /\ crc_bit = 0
    /\ crc = 0

CrcStart ==
    /\ crc_data \in CrcInputs
    /\ crc_pc = "byte"
    /\ crc_idx = 1
    /\ crc_bit = 0
    /\ crc = CrcInit

\* crc ^= byte
CrcXorByte ==
    /\ crc_pc = "byte"
    /\ crc_idx <= Len(crc_data)
    /\ crc' = Xor(crc, crc_data[crc_idx])
    /\ crc_bit' = 0
    /\ crc_pc' = "bits"
    /\ UNCHANGED <<crc_data, crc_idx, codec_vars, conn_vars, chan_vars, scan_vars>>

\* for _ in range(8): shift, conditionally xor the polynomial
CrcShiftStep ==
    /\ crc_pc = "bits"
    /\ crc_bit < 8
    /\ crc' = crc_shift(crc)
    /\ crc_bit' = crc_bit + 1
    /\ IF crc_bit + 1 = 8
       THEN crc_idx' = crc_idx + 1 /\ crc_pc' = "byte"
       ELSE UNCHANGED <<crc_idx, crc_pc>>
    /\ UNCHANGED <<crc_data, codec_vars, conn_vars, chan_vars, scan_vars>>

\* return crc
CrcReturn ==
    /\ crc_pc = "byte"
    /\ crc_idx > Len(crc_data)
    /\ crc_pc' = "done"
    /\ UNCHANGED <<crc_data, crc_idx, crc_bit, crc, codec_vars, conn_vars, chan_vars, scan_vars>>

CrcNext ==
    \/ CrcXorByte
    \/ CrcShiftStep
    \/ CrcReturn


\* ------------------------------------------------------------------------
\* Connector
\* ------------------------------------------------------------------------
Ids == {"00:11:22:33:44:55", "00:11:22:33:44:56"}
\* One device's address, written in upper and in lower case.
CaseIds == {"AA:BB:CC:DD:EE:FF", "aa:bb:cc:dd:ee:ff"}
Threads == {"t1", "t2"}
\* Identifier contended for by concurrent callers.
ConcIds == {"00:11:22:33:44:55"}
Platforms == {"Linux", "Windows", "Darwin", "Other"}

\* Transport handles are 1..MaxHandles; None is the absent handle.
None == 0
EmptyMap == [i \in {} |-> None]

NoCall == [op |-> "none", id |-> "", attempt |-> 0, outcomes |-> <<>>,
           waits |-> 0, conn |-> None, closes |-> <<>>, result |-> "pending",
           raised |-> FALSE, before |-> EmptyMap, todo |-> {}, closed |-> <<>>,
           backends |-> <<>>]

NoLast == [op |-> "none", id |-> "", result |-> "pending", installs |-> 0]

\* device_mac in self._connections
is_connected(conns, id) == id \in DOMAIN conns

\* self._connections.get(device_mac)
get_connection(conns, id) == IF id \in DOMAIN conns THEN conns[id] ELSE None

\* self._connections[device_mac] = connection
install(conns, id, h) ==
    [i \in DOMAIN conns \cup {id} |-> IF i = id THEN h ELSE conns[i]]

\* what is left of the dict after self._connections.pop(device_mac, None)
pop_connection_keeps_entry(conns, id) == conns

pop_connection(conns, id) == [i \in DOMAIN conns \ {id} |-> conns[i]]

\* for attempt in range(self._retry_count)
loop_continues_one_short(attempt, n) == attempt < n - 1

loop_continues(attempt, n) == attempt < n

\* _do_connect: dispatch on platform.system(); the three back-ends are the
\* external transport and may return a handle, return None or raise; any
\* other platform raises NotImplementedError.
dispatch_defaults_to_linux(system) ==
    IF system = "Windows" THEN "_connect_windows"
    ELSE IF system = "Darwin" THEN "_connect_macos"
    ELSE "_connect_linux"

\* the if/elif chain of _do_connect: the back-end that is called
dispatch(system) ==
    IF system = "Linux" THEN "_connect_linux"
    ELSE IF system = "Windows" THEN "_connect_windows"
    ELSE IF system = "Darwin" THEN "_connect_macos"
    ELSE "NotImplementedError"

do_connect_outcomes(system) ==
    IF dispatch(system) # "NotImplementedError"
    THEN {"ok", "none", "raise"}
    ELSE {"raise"}

\* if attempt < self._retry_count - 1: time.sleep(self._retry_delay)
sleeps_after_every_attempt(attempt, n) == TRUE

sleeps_after(attempt, n) == attempt < n - 1

\* ping(): False without a connection, else True (the probe is a stub)
ping_skips_check(conns, id) == "true"

ping(conns, id) == IF ~is_connected(conns, id) THEN "false" ELSE "true"

\* One pass of connect's try/except around _do_connect.
connect_attempt_no_except(outcome) ==
    IF outcome = "raise" THEN "propagate"
    ELSE IF outcome = "ok" THEN "install" ELSE "failed"

connect_attempt(outcome) ==
    IF outcome = "raise" THEN "failed"
    ELSE IF outcome = "ok" THEN "install" ELSE "failed"

\* _do_disconnect: close()/disconnect() inside try/except Exception, the
\* error is logged and swallowed.
do_disconnect(outcome) == "ok"

\* len(self._connections)
get_connection_count(conns) == Cardinality(DOMAIN conns)

\* get_connections(): self._connections.copy(); alias tells whether the
\* returned dict is the Connector's own dict object.
NoSnapshot == [held |-> FALSE, map |-> EmptyMap, alias |-> FALSE, mutated |-> FALSE]

get_connections_no_copy(conns) ==
    [held |-> TRUE, map |-> conns, alias |-> TRUE, mutated |-> FALSE]

get_connections(conns) ==
    [held |-> TRUE, map |-> conns, alias |-> FALSE, mutated |-> FALSE]

\* An object a caller may put into a dict it holds.
ForeignHandle == MaxHandles + 1

\* The dicts one caller edit (add, remove or replace an entry) makes of m.
SnapshotEdits(m) ==
    {install(m, i, ForeignHandle) : i \in Ids \cup DOMAIN m} \cup {pop_connection(m, i) : i \in DOMAIN m}

SweepOps == {"disconnect_all", "cleanup"}

\* Calls that go through BluetoothManager.disconnect_device.
ManagerOps == {"disconnect_device", "manager_cleanup"}

\* disconnect_device after a successful disconnect:
\* if device_mac in self._connected_devices: del self._connected_devices[device_mac]
forget_device(devices, op, id) ==
    IF op \in ManagerOps THEN devices \ {id} ELSE devices

\* list(self._connected_devices.keys()) in BluetoothManager.cleanup
manager_cleanup_targets(devices, conns) == devices

Installs(outcomes) == Cardinality({i \in 1..Len(outcomes) : outcomes[i] = "ok"})

ConnIdle ==
    /\ platform = "Linux"
    /\ retry_count = 3
    /\ connections = EmptyMap
    /\ next_handle = 1
    /\ closed_handles = <<>>
    /\ connected_devices = {}
    /\ pc = [t \in Threads |-> "idle"]
    /\ call = [t \in Threads |-> NoCall]
    /\ last = [t \in Threads |-> NoLast]
    /\ snapshot = NoSnapshot

ConnInit ==
    /\ platform \in Platforms
    /\ retry_count \in 1..MaxRetryCount
    /\ connections = EmptyMap
    /\ next_handle = 1
    /\ closed_handles = <<>>
    /\ connected_devices = {}
    /\ pc = [t \in Threads |-> "idle"]
    /\ call = [t \in Threads |-> NoCall]
    /\ last = [t \in Threads |-> NoLast]
    /\ snapshot = NoSnapshot

Finish(t, c) ==
    /\ call' = [call EXCEPT ![t] = c]
    /\ pc' = [pc EXCEPT ![t] = "done"]

\* connect(): lines 55-59
ConnectCallNoCheck(t, id) ==
    /\ pc[t] = "idle"
    /\ LET c == [NoCall EXCEPT !.op = "connect", !.id = id, !.before = connections]
       IN /\ call' = [call EXCEPT ![t] = c]
          /\ pc' = [pc EXCEPT ![t] = "loop"]
    /\ UNCHANGED <<platform, retry_count, connected_devices, connections, next_handle, closed_handles, last, snapshot, codec_vars, crc_vars, chan_vars, scan_vars>>

ConnectCall(t, id) ==
    /\ pc[t] = "idle"
    /\ LET c == [NoCall EXCEPT !.op = "connect", !.id = id, !.before = connections]
       IN IF is_connected(connections, id)
          THEN Finish(t, [c EXCEPT !.result = "true"])
          ELSE /\ call' = [call EXCEPT ![t] = c]
               /\ pc' = [pc EXCEPT ![t] = "loop"]
    /\ UNCHANGED <<platform, retry_count, connected_devices, connections, next_handle, closed_handles, last, snapshot, codec_vars, crc_vars, chan_vars, scan_vars>>

\* head of the for loop; falling out of it is "return False"
LoopHead(t) ==
    /\ pc[t] = "loop"
    /\ IF loop_continues(call[t].attempt, retry_count)
       THEN pc' = [pc EXCEPT ![t] = "opening"] /\ UNCHANGED call
       ELSE Finish(t, [call[t] EXCEPT !.result = "false"])
    /\ UNCHANGED <<platform, retry_count, connected_devices, connections, next_handle, closed_handles, last, snapshot, codec_vars, crc_vars, chan_vars, scan_vars>>

\* _do_connect returns or raises; lines 62-71
OpenReturns(t, outcome) ==
    /\ pc[t] = "opening"
    /\ outcome \in do_connect_outcomes(platform)
    /\ outcome = "ok" => next_handle <= MaxHandles
    /\ LET c == [call[t] EXCEPT !.outcomes = Append(@, outcome),
                                 !.backends = Append(@, dispatch(platform))]
           how == connect_attempt(outcome)
       IN CASE how = "install" ->
                 /\ connections' = install(connections, c.id, next_handle)
                 /\ next_handle' = next_handle + 1
                 /\ Finish(t, [c EXCEPT !.conn = next_handle, !.result = "true"])
            [] how = "failed" ->
                 /\ IF sleeps_after(c.attempt, retry_count)
                    THEN /\ call' = [call EXCEPT ![t] = c]
                         /\ pc' = [pc EXCEPT ![t] = "sleep"]
                    ELSE /\ call' = [call EXCEPT ![t] = [c EXCEPT !.attempt = @ + 1]]
                         /\ pc' = [pc EXCEPT ![t] = "loop"]
                 /\ UNCHANGED <<connections, next_handle>>
            [] how = "propagate" ->
                 /\ Finish(t, [c EXCEPT !.raised = TRUE])
                 /\ UNCHANGED <<connections, next_handle>>
    /\ UNCHANGED <<platform, retry_count, connected_devices, closed_handles, last, snapshot, codec_vars, crc_vars, chan_vars, scan_vars>>

\* time.sleep(self._retry_delay), then the next iteration
Sleep(t) ==
    /\ pc[t] = "sleep"
    /\ call' = [call EXCEPT ![t] = [@ EXCEPT !.waits = @ + 1, !.attempt = @ + 1]]
    /\ pc' = [pc EXCEPT ![t] = "loop"]
    /\ UNCHANGED <<platform, retry_count, connected_devices, connections, next_handle, closed_handles, last, snapshot, codec_vars, crc_vars, chan_vars, scan_vars>>

\* ping(device_mac)
Ping(t, id) ==
    /\ pc[t] = "idle"
    /\ Finish(t, [NoCall EXCEPT !.op = "ping", !.id = id, !.before = connections,
                                !.result = ping(connections, id)])
    /\ UNCHANGED <<platform, retry_count, connected_devices, connections, next_handle, closed_handles, last, snapshot, codec_vars, crc_vars, chan_vars, scan_vars>>

\* disconnect(): lines 102-106
DisconnectCallNoCheck(t, id) ==
    /\ pc[t] = "idle"
    /\ LET c == [NoCall EXCEPT !.op = "disconnect", !.id = id, !.before = connections]
       IN /\ call' = [call EXCEPT ![t] = c]
          /\ pc' = [pc EXCEPT ![t] = "pop"]
    /\ UNCHANGED <<platform, retry_count, connected_devices, connections, next_handle, closed_handles, last, snapshot, codec_vars, crc_vars, chan_vars, scan_vars>>

DisconnectCall(t, id) ==
    /\ pc[t] = "idle"
    /\ LET c == [NoCall EXCEPT !.op = "disconnect", !.id = id, !.before = connections]
       IN IF ~is_connected(connections, id)
          THEN Finish(t, [c EXCEPT !.result = "false"])
          ELSE /\ call' = [call EXCEPT ![t] = c]
               /\ pc' = [pc EXCEPT ![t] = "pop"]
    /\ UNCHANGED <<platform, retry_count, connected_devices, connections, next_handle, closed_handles, last, snapshot, codec_vars, crc_vars, chan_vars, scan_vars>>

\* connection = self._connections.pop(device_mac, None); lines 109-113
Pop(t) ==
    /\ pc[t] = "pop"
    /\ LET connection == get_connection(connections, call[t].id)
       IN /\ connections' = pop_connection(connections, call[t].id)
          /\ IF connection # None
             THEN /\ call' = [call EXCEPT ![t] = [@ EXCEPT !.conn = connection]]
                  /\ pc' = [pc EXCEPT ![t] = "closing"]
                  /\ UNCHANGED connected_devices
             ELSE /\ Finish(t, [call[t] EXCEPT !.result = "true"])
                  /\ connected_devices' = forget_device(connected_devices, call[t].op, call[t].id)
    /\ UNCHANGED <<platform, retry_count, next_handle, closed_handles, last, snapshot, codec_vars, crc_vars, chan_vars, scan_vars>>

\* self._do_disconnect(connection) and the return; lines 111-116
Close(t, outcome) ==
    /\ pc[t] = "closing"
    /\ outcome \in {"ok", "raise"}
    /\ closed_handles' = Append(closed_handles, call[t].conn)
    /\ LET c == [call[t] EXCEPT !.closes = Append(@, outcome),
                                 !.closed = Append(@, call[t].conn)]
       IN IF do_disconnect(outcome) = "raise"
          THEN /\ Finish(t, [c EXCEPT !.result = "false"])
               /\ UNCHANGED connected_devices
          ELSE /\ Finish(t, [c EXCEPT !.result = "true"])
               /\ connected_devices' = forget_device(connected_devices, c.op, c.id)
    /\ UNCHANGED <<platform, retry_count, connections, next_handle, last, snapshot, codec_vars, crc_vars, chan_vars, scan_vars>>

\* The call has returned to its caller; the thread may call again.
Return(t) ==
    /\ pc[t] = "done"
    /\ last' = [last EXCEPT ![t] = [op |-> call[t].op, id |-> call[t].id,
                                    result |-> call[t].result,
                                    installs |-> Installs(call[t].outcomes)]]
    /\ call' = [call EXCEPT ![t] = NoCall]
    /\ pc' = [pc EXCEPT ![t] = "idle"]
    /\ UNCHANGED <<platform, retry_count, connected_devices, connections, next_handle, closed_handles, snapshot, codec_vars, crc_vars, chan_vars, scan_vars>>

\* disconnect_all() and cleanup(), which only calls disconnect_all():
\* for device_mac in list(self._connections.keys())
DisconnectAllCall(t, entry) ==
    /\ pc[t] = "idle"
    /\ entry \in SweepOps
    /\ call' = [call EXCEPT ![t] = [NoCall EXCEPT !.op = entry,
                                                 !.before = connections,
                                                 !.todo = DOMAIN connections]]
    /\ pc' = [pc EXCEPT ![t] = "sweep"]
    /\ UNCHANGED <<platform, retry_count, connected_devices, connections, next_handle, closed_handles, last, snapshot,
                   codec_vars, crc_vars, chan_vars, scan_vars>>

\* next key of the list: self.disconnect(device_mac) up to its guard
SweepNext(t) ==
    /\ pc[t] = "sweep"
    /\ \/ /\ call[t].todo = {}
          /\ Finish(t, [call[t] EXCEPT !.result = "none"])
       \/ \E id \in call[t].todo :
             /\ call' = [call EXCEPT ![t] = [@ EXCEPT !.id = id, !.todo = @ \ {id}]]
             /\ pc' = [pc EXCEPT ![t] =
                          IF is_connected(connections, id) THEN "sweep_pop" ELSE "sweep"]
    /\ UNCHANGED <<platform, retry_count, connected_devices, connections, next_handle, closed_handles, last, snapshot,
                   codec_vars, crc_vars, chan_vars, scan_vars>>

\* the pop of the disconnect called from the sweep
SweepPop(t) ==
    /\ pc[t] = "sweep_pop"
    /\ LET connection == get_connection(connections, call[t].id)
       IN /\ connections' = pop_connection(connections, call[t].id)
          /\ call' = [call EXCEPT ![t] = [@ EXCEPT !.conn = connection]]
          /\ pc' = [pc EXCEPT ![t] = IF connection # None THEN "sweep_close" ELSE "sweep"]
          /\ connected_devices' = IF connection # None THEN connected_devices
                                   ELSE forget_device(connected_devices, call[t].op, call[t].id)
    /\ UNCHANGED <<platform, retry_count, next_handle, closed_handles, last, snapshot,
                   codec_vars, crc_vars, chan_vars, scan_vars>>

\* the close of the disconnect called from the sweep; its result is dropped
SweepCloseAborts(t, outcome) ==
    /\ pc[t] = "sweep_close"
    /\ outcome \in {"ok", "raise"}
    /\ closed_handles' = Append(closed_handles, call[t].conn)
    /\ LET c == [call[t] EXCEPT !.closes = Append(@, outcome),
                                 !.closed = Append(@, call[t].conn)]
       IN IF outcome = "raise"
          THEN /\ Finish(t, [c EXCEPT !.raised = TRUE])
               /\ UNCHANGED connected_devices
          ELSE /\ call' = [call EXCEPT ![t] = c]
               /\ pc' = [pc EXCEPT ![t] = "sweep"]
               /\ connected_devices' = forget_device(connected_devices, c.op, c.id)
    /\ UNCHANGED <<platform, retry_count, connections, next_handle, last, snapshot,
                   codec_vars, crc_vars, chan_vars, scan_vars>>

SweepClose(t, outcome) ==
    /\ pc[t] = "sweep_close"
    /\ outcome \in {"ok", "raise"}
    /\ closed_handles' = Append(closed_handles, call[t].conn)
    /\ LET c == [call[t] EXCEPT !.closes = Append(@, outcome),
                                 !.closed = Append(@, call[t].conn)]
       IN IF do_disconnect(outcome) = "raise"
          THEN /\ Finish(t, [c EXCEPT !.raised = TRUE])
               /\ UNCHANGED connected_devices
          ELSE /\ call' = [call EXCEPT ![t] = c]
               /\ pc' = [pc EXCEPT ![t] = "sweep"]
               /\ connected_devices' = forget_device(connected_devices, c.op, c.id)
    /\ UNCHANGED <<platform, retry_count, connections, next_handle, last, snapshot,
                   codec_vars, crc_vars, chan_vars, scan_vars>>

\* BluetoothManager.connect_device: self.connector.connect(device_mac) and
\* the on-connected callback; _connected_devices is not written.
ManagerConnectDevice(t, id) ==
    /\ pc[t] = "idle"
    /\ LET c == [NoCall EXCEPT !.op = "connect_device", !.id = id, !.before = connections]
       IN IF is_connected(connections, id)
          THEN Finish(t, [c EXCEPT !.result = "true"])
          ELSE /\ call' = [call EXCEPT ![t] = c]
               /\ pc' = [pc EXCEPT ![t] = "loop"]
    /\ UNCHANGED <<platform, retry_count, connected_devices, connections, next_handle, closed_handles, last, snapshot, codec_vars, crc_vars, chan_vars, scan_vars>>

\* BluetoothManager.disconnect_device: self.connector.disconnect(device_mac);
\* the steps Pop and Close follow, and on success the device is taken out of
\* _connected_devices.
ManagerDisconnectDevice(t, id) ==
    /\ pc[t] = "idle"
    /\ LET c == [NoCall EXCEPT !.op = "disconnect_device", !.id = id, !.before = connections]
       IN IF ~is_connected(connections, id)
          THEN Finish(t, [c EXCEPT !.result = "false"])
          ELSE /\ call' = [call EXCEPT ![t] = c]
               /\ pc' = [pc EXCEPT ![t] = "pop"]
    /\ UNCHANGED <<platform, retry_count, connected_devices, connections, next_handle, closed_handles, last, snapshot, codec_vars, crc_vars, chan_vars, scan_vars>>

\* BluetoothManager.cleanup (and __exit__, which only calls it):
\* for device_mac in list(self._connected_devices.keys()):
\*     self.disconnect_device(device_mac)
ManagerCleanup(t) ==
    /\ pc[t] = "idle"
    /\ call' = [call EXCEPT ![t] = [NoCall EXCEPT !.op = "manager_cleanup",
                                                 !.before = connections,
                                                 !.todo = manager_cleanup_targets(connected_devices, connections)]]
    /\ pc' = [pc EXCEPT ![t] = "sweep"]
    /\ UNCHANGED <<platform, retry_count, connected_devices, connections, next_handle, closed_handles, last, snapshot,
                   codec_vars, crc_vars, chan_vars, scan_vars>>

\* get_connections() called between two calls
GetConnections(t) ==
    /\ pc[t] = "idle"
    /\ snapshot' = get_connections(connections)
    /\ UNCHANGED <<platform, retry_count, connected_devices, connections, next_handle, closed_handles, pc, call, last,
                   codec_vars, crc_vars, chan_vars, scan_vars>>

\* The caller adds, removes or replaces an entry of the dict it was given;
\* the Connector's dict follows only if it is the same object.
MutateSnapshot(t, m) ==
    /\ pc[t] = "idle"
    /\ snapshot.held
    /\ ~snapshot.mutated
    /\ m \in SnapshotEdits(snapshot.map)
    /\ snapshot' = [snapshot EXCEPT !.map = m, !.mutated = TRUE]
    /\ connections' = IF snapshot.alias THEN m ELSE connections
    /\ UNCHANGED <<platform, retry_count, connected_devices, next_handle, closed_handles, pc, call, last,
                   codec_vars, crc_vars, chan_vars, scan_vars>>

\* Calls made one after another by a single caller.
Caller == "t1"

ConnNext ==
    \/ \E id \in Ids : ConnectCall(Caller, id)
    \/ LoopHead(Caller)
    \/ \E o \in {"ok", "none", "raise"} : OpenReturns(Caller, o)
    \/ Sleep(Caller)
    \/ \E id \in Ids : DisconnectCall(Caller, id)
    \/ Pop(Caller)
    \/ \E o \in {"ok", "raise"} : Close(Caller, o)
    \/ \E e \in SweepOps : DisconnectAllCall(Caller, e)
    \/ SweepNext(Caller)
    \/ SweepPop(Caller)
    \/ \E o \in {"ok", "raise"} : SweepClose(Caller, o)
    \/ \E id \in Ids : Ping(Caller, id)
    \/ Return(Caller)

\* The same calls, with get_connections() and edits of the returned dict
\* in between.
SnapshotNext ==
    \/ \E id \in Ids : ConnectCall(Caller, id)
    \/ LoopHead(Caller)
    \/ \E o \in {"ok", "none", "raise"} : OpenReturns(Caller, o)
    \/ Sleep(Caller)
    \/ \E id \in Ids : DisconnectCall(Caller, id)
    \/ Pop(Caller)
    \/ \E o \in {"ok", "raise"} : Close(Caller, o)
    \/ GetConnections(Caller)
    \/ \E m \in SnapshotEdits(snapshot.map) : MutateSnapshot(Caller, m)
    \/ Return(Caller)

\* The same calls on one device's address in two spellings.
CaseNext ==
    \/ \E id \in CaseIds : ConnectCall(Caller, id)
    \/ LoopHead(Caller)
    \/ \E o \in {"ok", "none", "raise"} : OpenReturns(Caller, o)
    \/ Sleep(Caller)
    \/ \E id \in CaseIds : DisconnectCall(Caller, id)
    \/ Pop(Caller)
    \/ \E o \in {"ok", "raise"} : Close(Caller, o)
    \/ Return(Caller)

\* connect and disconnect calls of all threads, in any interleaving
ConcNext ==
    \E t \in Threads :
        \/ \E id \in ConcIds : ConnectCall(t, id)
        \/ LoopHead(t)
        \/ \E o \in {"ok", "none", "raise"} : OpenReturns(t, o)
        \/ Sleep(t)
        \/ \E id \in ConcIds : DisconnectCall(t, id)
        \/ Pop(t)
        \/ \E o \in {"ok", "raise"} : Close(t, o)
        \/ DisconnectAllCall(t, "disconnect_all")
        \/ SweepNext(t)
        \/ SweepPop(t)
        \/ \E o \in {"ok", "raise"} : SweepClose(t, o)
        \/ Return(t)

\* ------------------------------------------------------------------------
\* DataHandler
\* ------------------------------------------------------------------------
\* Non-empty payloads read from the transport or handed to send.
Data == {"A", "B", "C"}
\* The None a receive call returns.
Absent == "None"
\* The two entry points: the DataHandler itself, or the BluetoothManager
\* method that wraps it.
Vias == {"direct", "manager"}

\* The running send or receive call: whether the device was connected when
\* it started, what it returned, whether it left by an exception, whether
\* the transmit step of send was passed, the observer invocations it made,
\* whether it entered queue.get, the queue head it found there, what it
\* removed from the queue, and the two dicts as they were when it started.
NoChanCall == [op |-> "none", id |-> "", via |-> "", data |-> "",
               connected |-> FALSE, result |-> "pending", raised |-> FALSE,
               transmit |-> "skipped", cb_calls |-> <<>>, mgr_cb_calls |-> <<>>,
               waited |-> FALSE, head |-> Absent, popped |-> <<>>,
               queues_before |-> EmptyMap, threads_before |-> {}]

\* The last finished call when it was a stop_listening: the device and the
\* payloads its queue still held.
NoChanPrev == [op |-> "none", id |-> "", dropped |-> <<>>]

\* The start_listening call a thread is in.
NoListenCall == [id |-> ""]

ChanIdle ==
    /\ on_data_sent = FALSE
    /\ on_data_received = FALSE
    /\ mgr_on_data_received = FALSE
    /\ receive_queues = EmptyMap
    /\ receive_threads = {}
    /\ enqueued = EmptyMap
    /\ delivered = EmptyMap
    /\ chan_pc = "off"
    /\ chan_call = NoChanCall
    /\ chan_prev = NoChanPrev
    /\ loops = [i \in Ids |-> 0]
    /\ listen_pc = [t \in Threads |-> "idle"]
    /\ listen_call = [t \in Threads |-> NoListenCall]

\* DataHandler.__init__: no queues, no listeners, no observers.
ChanInit ==
    /\ on_data_sent = FALSE
    /\ on_data_received = FALSE
    /\ mgr_on_data_received = FALSE
    /\ receive_queues = EmptyMap
    /\ receive_threads = {}
    /\ enqueued = EmptyMap
    /\ delivered = EmptyMap
    /\ chan_pc = "idle"
    /\ chan_call = NoChanCall
    /\ chan_prev = NoChanPrev
    /\ loops = [i \in Ids |-> 0]
    /\ listen_pc = [t \in Threads |-> "idle"]
    /\ listen_call = [t \in Threads |-> NoListenCall]

\* The connection map while the channel is used: nothing is connected, or
\* the first device is, by one successful connect.
ChanConnections == {EmptyMap, install(EmptyMap, "00:11:22:33:44:55", 1)}

ChanConnInit ==
    /\ platform = "Linux"
    /\ retry_count = 3
    /\ connections \in ChanConnections
    /\ next_handle = get_connection_count(connections) + 1
    /\ closed_handles = <<>>
    /\ connected_devices = {}
    /\ pc = [t \in Threads |-> "idle"]
    /\ call = [t \in Threads |-> NoCall]
    /\ last = [t \in Threads |-> NoLast]
    /\ snapshot = NoSnapshot

\* self._receive_queues[device_mac] = queue.Queue()
new_queue(queues, id) ==
    [i \in DOMAIN queues \cup {id} |-> IF i = id THEN <<>> ELSE queues[i]]

\* if device_mac in self._receive_queues: del self._receive_queues[device_mac]
drop_queue_keeps_queue(queues, id) == queues

drop_queue(queues, id) == [i \in DOMAIN queues \ {id} |-> queues[i]]

\* queue.put(data) on the device's queue
put(queues, id, d) == [queues EXCEPT ![id] = Append(@, d)]

\* Number of payloads the listeners enqueued into the queues that exist.
TotalEnqueued ==
    Cardinality(UNION {{<<i, k>> : k \in 1..Len(enqueued[i])} : i \in DOMAIN enqueued})

\* The try body of DataHandler.send and its except clause: the transmit
\* step (a stub that cannot fail), then the data-sent observer when one is
\* registered; an exception of the observer is caught and makes send
\* return False.
send_body(c, registered, cb) ==
    LET c1 == [c EXCEPT !.transmit = "completed"]
        c2 == IF registered
              THEN [c1 EXCEPT !.cb_calls = Append(@, <<c.id, c.data>>)]
              ELSE c1
    IN  IF registered /\ cb = "raise"
        THEN [c2 EXCEPT !.result = "False"]
        ELSE [c2 EXCEPT !.result = "True"]

\* DataHandler.receive after queue.get returned h: the data-received
\* observer when one is registered, then return h; an exception of the
\* observer reaches the outer except clause, which returns None.
receive_got(c, h, registered, cb) ==
    LET c1 == [c EXCEPT !.head = h, !.popped = Append(@, h)]
        c2 == IF registered
              THEN [c1 EXCEPT !.cb_calls = Append(@, <<c.id, h>>)]
              ELSE c1
    IN  IF registered /\ cb = "raise"
        THEN [c2 EXCEPT !.result = Absent]
        ELSE [c2 EXCEPT !.result = h]

\* BluetoothManager.receive_data after data_handler.receive returned: the
\* manager's own observer when data came back; its exception propagates.
receive_data_tail(c, registered, mcb) ==
    IF c.via = "manager" /\ c.result # Absent /\ registered
    THEN IF mcb = "raise"
         THEN [c EXCEPT !.mgr_cb_calls = Append(@, <<c.id, c.result>>),
                        !.result = "raised", !.raised = TRUE]
         ELSE [c EXCEPT !.mgr_cb_calls = Append(@, <<c.id, c.result>>)]
    ELSE c

SetDataSentCallback ==
    /\ chan_pc = "idle"
    /\ listen_pc[Caller] = "idle"
    /\ on_data_sent' = TRUE
    /\ chan_prev' = NoChanPrev
    /\ UNCHANGED <<on_data_received, mgr_on_data_received, receive_queues,
                   receive_threads, enqueued, delivered, chan_pc, chan_call,
                   listen_vars, codec_vars, crc_vars, conn_vars, scan_vars>>

SetDataReceivedCallback ==
    /\ chan_pc = "idle"
    /\ listen_pc[Caller] = "idle"
    /\ on_data_received' = TRUE
    /\ chan_prev' = NoChanPrev
    /\ UNCHANGED <<on_data_sent, mgr_on_data_received, receive_queues,
                   receive_threads, enqueued, delivered, chan_pc, chan_call,
                   listen_vars, codec_vars, crc_vars, conn_vars, scan_vars>>

\* BluetoothManager.on_data_received(callback)
ManagerOnDataReceived ==
    /\ chan_pc = "idle"
    /\ listen_pc[Caller] = "idle"
    /\ mgr_on_data_received' = TRUE
    /\ chan_prev' = NoChanPrev
    /\ UNCHANGED <<on_data_sent, on_data_received, receive_queues,
                   receive_threads, enqueued, delivered, chan_pc, chan_call,
                   listen_vars, codec_vars, crc_vars, conn_vars, scan_vars>>

\* DataHandler.send(id, d), called directly or through
\* BluetoothManager.send_data, which returns False first when the device
\* is not connected; cb is what the observer does when it is invoked.
Send(id, d, via, cb) ==
    /\ chan_pc = "idle"
    /\ pc[Caller] = "idle"
    /\ listen_pc[Caller] = "idle"
    /\ LET c0 == [NoChanCall EXCEPT !.op = "send", !.id = id, !.via = via,
                                    !.data = d,
                                    !.connected = is_connected(connections, id)]
       IN  chan_call' = IF via = "manager" /\ ~is_connected(connections, id)
                        THEN [c0 EXCEPT !.result = "False"]
                        ELSE send_body(c0, on_data_sent, cb)
    /\ chan_pc' = "done"
    /\ chan_prev' = NoChanPrev
    /\ UNCHANGED <<on_data_sent, on_data_received, mgr_on_data_received,
                   receive_queues, receive_threads, enqueued, delivered,
                   listen_vars, codec_vars, crc_vars, conn_vars, scan_vars>>

\* Number of listener loops that are running.
RECURSIVE SumLoops(_, _)
SumLoops(f, S) ==
    IF S = {} THEN 0
    ELSE LET i == CHOOSE x \in S : TRUE IN f[i] + SumLoops(f, S \ {i})

TotalLoops == SumLoops(loops, Ids)

\* start_listening(id, callback) by thread t, line 191: nothing when a
\* listener is registered for id.
StartListeningCall(t, id) ==
    /\ chan_pc = "idle"
    /\ listen_pc[t] = "idle"
    /\ IF id \in receive_threads
       THEN /\ chan_prev' = NoChanPrev
            /\ UNCHANGED <<listen_pc, listen_call>>
       ELSE /\ listen_pc' = [listen_pc EXCEPT ![t] = "create"]
            /\ listen_call' = [listen_call EXCEPT ![t] = [id |-> id]]
            /\ UNCHANGED chan_prev
    /\ UNCHANGED <<on_data_sent, on_data_received, mgr_on_data_received,
                   receive_queues, receive_threads, enqueued, delivered,
                   chan_pc, chan_call, loops,
                   codec_vars, crc_vars, conn_vars, scan_vars>>

\* line 195: a new empty queue is stored under id.
CreateQueue(t) ==
    /\ listen_pc[t] = "create"
    /\ LET id == listen_call[t].id
       IN /\ receive_queues' = new_queue(receive_queues, id)
          /\ enqueued' = new_queue(enqueued, id)
          /\ delivered' = new_queue(delivered, id)
    /\ listen_pc' = [listen_pc EXCEPT ![t] = "register"]
    /\ UNCHANGED <<on_data_sent, on_data_received, mgr_on_data_received,
                   receive_threads, chan_pc, chan_call, chan_prev, loops,
                   listen_call, codec_vars, crc_vars, conn_vars, scan_vars>>

\* lines 215-217: the thread is stored under id and started; start_listening
\* returns.
StartThread(t) ==
    /\ listen_pc[t] = "register"
    /\ TotalLoops < MaxLoops
    /\ LET id == listen_call[t].id
       IN /\ receive_threads' = receive_threads \cup {id}
          /\ loops' = [loops EXCEPT ![id] = @ + 1]
    /\ listen_pc' = [listen_pc EXCEPT ![t] = "idle"]
    /\ listen_call' = [listen_call EXCEPT ![t] = NoListenCall]
    /\ chan_prev' = NoChanPrev
    /\ UNCHANGED <<on_data_sent, on_data_received, mgr_on_data_received,
                   receive_queues, enqueued, delivered, chan_pc, chan_call,
                   codec_vars, crc_vars, conn_vars, scan_vars>>

\* while device_mac in self._receive_threads
listen_loop_continues_forever(threads, id) == TRUE

listen_loop_continues(threads, id) == id \in threads

\* A loop whose device has no listener entry leaves the loop and its thread
\* ends.
LoopExit(id) ==
    /\ loops[id] > 0
    /\ ~listen_loop_continues(receive_threads, id)
    /\ loops' = [loops EXCEPT ![id] = @ - 1]
    /\ UNCHANGED <<on_data_sent, on_data_received, mgr_on_data_received,
                   receive_queues, receive_threads, enqueued, delivered,
                   chan_pc, chan_call, chan_prev, listen_pc, listen_call,
                   codec_vars, crc_vars, conn_vars, scan_vars>>

\* except Exception: break - what the handler of a read error does to the
\* listener entries.
listen_except_clears_entries(threads, id) == {}

listen_except(threads, id) == threads

\* A read from the transport raises inside the loop of device id: the
\* except clause logs and breaks, the thread ends.
LoopReadError(id) ==
    /\ loops[id] > 0
    /\ listen_loop_continues(receive_threads, id)
    /\ loops' = [loops EXCEPT ![id] = @ - 1]
    /\ receive_threads' = listen_except(receive_threads, id)
    /\ UNCHANGED <<on_data_sent, on_data_received, mgr_on_data_received,
                   receive_queues, enqueued, delivered,
                   chan_pc, chan_call, chan_prev, listen_pc, listen_call,
                   codec_vars, crc_vars, conn_vars, scan_vars>>

\* cleanup(device_mac): the devices whose listening is stopped; "" stands
\* for the default None.
cleanup_targets_always_all(threads, arg) == threads

cleanup_targets(threads, arg) == IF arg # "" THEN {arg} ELSE threads

\* cleanup(arg): stop_listening for every target.
Cleanup(arg) ==
    /\ chan_pc = "idle"
    /\ listen_pc[Caller] = "idle"
    /\ LET targets == cleanup_targets(receive_threads, arg)
       IN /\ receive_threads' = receive_threads \ targets
          /\ receive_queues' = [i \in DOMAIN receive_queues \ targets |-> receive_queues[i]]
          /\ enqueued' = [i \in DOMAIN enqueued \ targets |-> enqueued[i]]
          /\ delivered' = [i \in DOMAIN delivered \ targets |-> delivered[i]]
    /\ chan_call' = [NoChanCall EXCEPT !.op = "cleanup", !.id = arg,
                                       !.queues_before = receive_queues,
                                       !.threads_before = receive_threads]
    /\ chan_pc' = "done"
    /\ chan_prev' = NoChanPrev
    /\ UNCHANGED <<on_data_sent, on_data_received, mgr_on_data_received,
                   listen_vars,
                   codec_vars, crc_vars, conn_vars, scan_vars>>

\* The same stop_listening with the queue left behind.
StopListeningKeepsQueue(id) ==
    /\ chan_pc = "idle"
    /\ listen_pc[Caller] = "idle"
    /\ receive_threads' = receive_threads \ {id}
    /\ chan_prev' = [op |-> "stop_listening", id |-> id, dropped |-> <<>>]
    /\ UNCHANGED <<on_data_sent, on_data_received, mgr_on_data_received,
                   receive_queues, enqueued, delivered,
                   chan_pc, chan_call, listen_vars,
                   codec_vars, crc_vars, conn_vars, scan_vars>>

\* stop_listening(id): the listener entry and the queue are deleted.
StopListening(id) ==
    /\ chan_pc = "idle"
    /\ listen_pc[Caller] = "idle"
    /\ receive_threads' = receive_threads \ {id}
    /\ receive_queues' = drop_queue(receive_queues, id)
    /\ enqueued' = drop_queue(enqueued, id)
    /\ delivered' = drop_queue(delivered, id)
    /\ chan_prev' = [op |-> "stop_listening", id |-> id,
                     dropped |-> IF id \in DOMAIN receive_queues
                                 THEN receive_queues[id] ELSE <<>>]
    /\ UNCHANGED <<on_data_sent, on_data_received, mgr_on_data_received,
                   chan_pc, chan_call, listen_vars, codec_vars, crc_vars, conn_vars, scan_vars>>

\* One iteration of the listener loop of device id: while the device has a
\* listener entry, a non-empty read d from the transport is put on the
\* device's queue.
ListenerEnqueue(id, d) ==
    /\ chan_pc \in {"idle", "waiting"}
    /\ loops[id] > 0
    /\ listen_loop_continues(receive_threads, id)
    /\ id \in DOMAIN receive_queues
    /\ TotalEnqueued < MaxEnqueued
    /\ receive_queues' = put(receive_queues, id, d)
    /\ enqueued' = put(enqueued, id, d)
    /\ UNCHANGED <<on_data_sent, on_data_received, mgr_on_data_received,
                   receive_threads, delivered, chan_pc, chan_call, chan_prev,
                   listen_vars, codec_vars, crc_vars, conn_vars, scan_vars>>

\* receive(id), called directly or through BluetoothManager.receive_data,
\* which returns None first when the device is not connected: with a
\* queue for id the call enters queue.get(timeout), without one it returns
\* None.
ReceiveCall(id, via) ==
    /\ chan_pc = "idle"
    /\ listen_pc[Caller] = "idle"
    /\ LET c0 == [NoChanCall EXCEPT !.op = "receive", !.id = id, !.via = via,
                                    !.connected = is_connected(connections, id),
                                    !.queues_before = receive_queues,
                                    !.threads_before = receive_threads]
       IN  IF via = "manager" /\ ~is_connected(connections, id)
           THEN chan_call' = [c0 EXCEPT !.result = Absent] /\ chan_pc' = "done"
           ELSE IF id \in DOMAIN receive_queues
                THEN chan_call' = [c0 EXCEPT !.waited = TRUE] /\ chan_pc' = "waiting"
                ELSE chan_call' = [c0 EXCEPT !.result = Absent] /\ chan_pc' = "done"
    /\ UNCHANGED <<on_data_sent, on_data_received, mgr_on_data_received,
                   receive_queues, receive_threads, enqueued, delivered,
                   chan_prev, listen_vars, codec_vars, crc_vars, conn_vars, scan_vars>>

\* queue.get returns the head of a non-empty queue; cb and mcb are what
\* the two observers do when they are invoked.
ReceiveGet(cb, mcb) ==
    /\ chan_pc = "waiting"
    /\ receive_queues[chan_call.id] # <<>>
    /\ LET id == chan_call.id
           h == Head(receive_queues[id])
           c == receive_data_tail(receive_got(chan_call, h, on_data_received, cb),
                                  mgr_on_data_received, mcb)
       IN  /\ receive_queues' = [receive_queues EXCEPT ![id] = Tail(@)]
           /\ chan_call' = c
           /\ delivered' = IF c.result \in Data
                           THEN put(delivered, id, c.result)
                           ELSE delivered
    /\ chan_pc' = "done"
    /\ UNCHANGED <<on_data_sent, on_data_received, mgr_on_data_received,
                   receive_threads, enqueued, chan_prev,
                   listen_vars, codec_vars, crc_vars, conn_vars, scan_vars>>

\* queue.get raises queue.Empty when the timeout elapses on an empty queue.
ReceiveTimeout ==
    /\ chan_pc = "waiting"
    /\ receive_queues[chan_call.id] = <<>>
    /\ chan_call' = [chan_call EXCEPT !.result = Absent]
    /\ chan_pc' = "done"
    /\ UNCHANGED <<on_data_sent, on_data_received, mgr_on_data_received,
                   receive_queues, receive_threads, enqueued, delivered,
                   chan_prev, listen_vars, codec_vars, crc_vars, conn_vars, scan_vars>>

ChanReturn ==
    /\ chan_pc = "done"
    /\ chan_pc' = "idle"
    /\ chan_call' = NoChanCall
    /\ chan_prev' = IF chan_call.op = "receive" THEN NoChanPrev ELSE chan_prev
    /\ UNCHANGED <<on_data_sent, on_data_received, mgr_on_data_received,
                   receive_queues, receive_threads, enqueued, delivered,
                   listen_vars, codec_vars, crc_vars, conn_vars, scan_vars>>

\* One caller that connects, disconnects and sends.
SendNext ==
    \/ \E id \in Ids : ConnectCall(Caller, id)
    \/ LoopHead(Caller)
    \/ \E o \in {"ok", "none", "raise"} : OpenReturns(Caller, o)
    \/ Sleep(Caller)
    \/ \E id \in Ids : DisconnectCall(Caller, id)
    \/ Pop(Caller)
    \/ \E o \in {"ok", "raise"} : Close(Caller, o)
    \/ Return(Caller)
    \/ SetDataSentCallback
    \/ \E id \in Ids, d \in Data, via \in Vias, cb \in {"ok", "raise"} : Send(id, d, via, cb)
    \/ ChanReturn

\* One caller that listens and receives, and the listener threads.
ChanNext ==
    \/ SetDataReceivedCallback
    \/ ManagerOnDataReceived
    \/ \E id \in Ids : StartListeningCall(Caller, id)
    \/ CreateQueue(Caller)
    \/ StartThread(Caller)
    \/ \E id \in Ids : StopListening(id)
    \/ \E id \in Ids : LoopExit(id)
    \/ \E id \in Ids, d \in Data : ListenerEnqueue(id, d)
    \/ \E id \in Ids, via \in Vias : ReceiveCall(id, via)
    \/ \E cb \in {"ok", "raise"}, mcb \in {"ok", "raise"} : ReceiveGet(cb, mcb)
    \/ ReceiveTimeout
    \/ ChanReturn

\* ------------------------------------------------------------------------
\* DeviceScanner
\* ------------------------------------------------------------------------
\* self.config.get("scan_timeout", 10)
ScanTimeoutDefault == 10
\* The timeout argument of scan: None (0) or a number of seconds.
ScanTimeouts == {0, 15}

NoScan == [timeout |-> 0, started |-> FALSE, result |-> "pending", raised |-> FALSE]

\* timeout or self._scan_timeout
effective_timeout(timeout) == IF timeout # 0 THEN timeout ELSE ScanTimeoutDefault

\* The _scanning flag when scan leaves its try block.
flag_after_scan_no_finally(outcome, flag) == IF outcome = "raise" THEN flag ELSE FALSE

flag_after_scan(outcome, flag) == FALSE

ScanIdle ==
    /\ scanning = FALSE
    /\ scan_pc = [t \in Threads |-> "off"]
    /\ scan_call = [t \in Threads |-> NoScan]

\* DeviceScanner.__init__
ScanInit ==
    /\ scanning = FALSE
    /\ scan_pc = [t \in Threads |-> "idle"]
    /\ scan_call = [t \in Threads |-> NoScan]

\* scan(timeout): the check of the flag; a set flag returns [].
ScanCall(t, timeout) ==
    /\ scan_pc[t] = "idle"
    /\ IF scanning
       THEN /\ scan_call' = [scan_call EXCEPT ![t] = [NoScan EXCEPT !.result = "empty"]]
            /\ scan_pc' = [scan_pc EXCEPT ![t] = "done"]
       ELSE /\ scan_call' = [scan_call EXCEPT ![t] =
                                [NoScan EXCEPT !.timeout = effective_timeout(timeout)]]
            /\ scan_pc' = [scan_pc EXCEPT ![t] = "checked"]
    /\ UNCHANGED <<scanning, codec_vars, crc_vars, conn_vars, chan_vars>>

\* self._scanning = True, then _do_scan(timeout) is entered.
ScanSetFlag(t) ==
    /\ scan_pc[t] = "checked"
    /\ scanning' = TRUE
    /\ scan_call' = [scan_call EXCEPT ![t] = [@ EXCEPT !.started = TRUE]]
    /\ scan_pc' = [scan_pc EXCEPT ![t] = "scanning"]
    /\ UNCHANGED <<codec_vars, crc_vars, conn_vars, chan_vars>>

\* _do_scan returns a device list or raises; the finally clause runs and
\* scan returns the list or lets the exception through.
ScanFinish(t, outcome) ==
    /\ scan_pc[t] = "scanning"
    /\ scanning' = flag_after_scan(outcome, scanning)
    /\ scan_call' = [scan_call EXCEPT ![t] =
                        IF outcome = "raise"
                        THEN [@ EXCEPT !.result = "raised", !.raised = TRUE]
                        ELSE [@ EXCEPT !.result = "devices"]]
    /\ scan_pc' = [scan_pc EXCEPT ![t] = "done"]
    /\ UNCHANGED <<codec_vars, crc_vars, conn_vars, chan_vars>>

ScanReturn(t) ==
    /\ scan_pc[t] = "done"
    /\ scan_pc' = [scan_pc EXCEPT ![t] = "idle"]
    /\ scan_call' = [scan_call EXCEPT ![t] = NoScan]
    /\ UNCHANGED <<scanning, codec_vars, crc_vars, conn_vars, chan_vars>>

\* scan calls of all threads (scan_async runs scan on executor threads)
ScanNext ==
    \E t \in Threads :
        \/ \E timeout \in ScanTimeouts : ScanCall(t, timeout)
        \/ ScanSetFlag(t)
        \/ \E o \in {"devices", "raise"} : ScanFinish(t, o)
        \/ ScanReturn(t)

\* ------------------------------------------------------------------------
\* Specifications
\* ------------------------------------------------------------------------
InitCodec == CodecInit /\ CrcIdle /\ ConnIdle /\ ChanIdle /\ ScanIdle
SpecCodec == InitCodec /\ [][CodecNext]_vars

InitCrc == CrcStart /\ CodecIdle /\ ConnIdle /\ ChanIdle /\ ScanIdle
SpecCrc == InitCrc /\ [][CrcNext]_vars

InitConnector == ConnInit /\ CodecIdle /\ CrcIdle /\ ChanIdle /\ ScanIdle
SpecConnector == InitConnector /\ [][ConnNext]_vars

InitConnectorConc ==
    ConnInit /\ platform = "Linux" /\ retry_count <= 2 /\ CodecIdle /\ CrcIdle /\ ChanIdle /\ ScanIdle
SpecConnectorConc == InitConnectorConc /\ [][ConcNext]_vars

InitSnapshot ==
    ConnInit /\ platform = "Linux" /\ retry_count = 2 /\ CodecIdle /\ CrcIdle /\ ChanIdle /\ ScanIdle
SpecSnapshot == InitSnapshot /\ [][SnapshotNext]_vars

InitCase ==
    ConnInit /\ platform = "Linux" /\ CodecIdle /\ CrcIdle /\ ChanIdle /\ ScanIdle
SpecCase == InitCase /\ [][CaseNext]_vars

\* One application driving the BluetoothManager and its DataHandler.
ManagerNext ==
    \/ \E id \in Ids : ManagerConnectDevice(Caller, id)
    \/ LoopHead(Caller)
    \/ \E o \in {"ok", "none", "raise"} : OpenReturns(Caller, o)
    \/ Sleep(Caller)
    \/ \E id \in Ids : ManagerDisconnectDevice(Caller, id)
    \/ Pop(Caller)
    \/ \E o \in {"ok", "raise"} : Close(Caller, o)
    \/ ManagerCleanup(Caller)
    \/ SweepNext(Caller)
    \/ Return(Caller)
    \/ \E id \in Ids : StartListeningCall(Caller, id)
    \/ CreateQueue(Caller)
    \/ StartThread(Caller)
    \/ \E id \in Ids : StopListening(id)
    \/ \E id \in Ids : LoopExit(id)

InitManager ==
    ChanInit /\ ConnInit /\ platform = "Linux" /\ retry_count = 2 /\ CodecIdle /\ CrcIdle /\ ScanIdle
SpecManager == InitManager /\ [][ManagerNext]_vars

InitSend ==
    ChanInit /\ ConnInit /\ platform = "Linux" /\ retry_count = 2 /\ CodecIdle /\ CrcIdle /\ ScanIdle
SpecSend == InitSend /\ [][SendNext]_vars

\* Two threads that call start_listening, one of which also stops and
\* cleans up, and the listener loops with their reads.
ListenNext ==
    \/ \E t \in Threads, id \in Ids : StartListeningCall(t, id)
    \/ \E t \in Threads : CreateQueue(t)
    \/ \E t \in Threads : StartThread(t)
    \/ \E id \in Ids : StopListening(id)
    \/ \E id \in Ids, d \in Data : ListenerEnqueue(id, d)
    \/ \E id \in Ids : LoopExit(id)
    \/ \E id \in Ids : LoopReadError(id)

InitListener == ChanInit /\ ConnIdle /\ CodecIdle /\ CrcIdle /\ ScanIdle
SpecListener == InitListener /\ [][ListenNext]_vars

\* The listener threads are scheduled fairly: a loop that can test its
\* condition and leave does so.
SpecListenerFair ==
    InitListener /\ [][ListenNext]_vars /\ \A id \in Ids : WF_vars(LoopExit(id))

\* One caller of the DataHandler alone, who starts and stops listening,
\* cleans up and receives, and the listener loops.
LifecycleNext ==
    \/ SetDataReceivedCallback
    \/ \E id \in Ids : StartListeningCall(Caller, id)
    \/ CreateQueue(Caller)
    \/ StartThread(Caller)
    \/ \E id \in Ids : StopListening(id)
    \/ \E arg \in Ids \cup {""} : Cleanup(arg)
    \/ \E id \in Ids, d \in Data : ListenerEnqueue(id, d)
    \/ \E id \in Ids : LoopExit(id)
    \/ \E id \in Ids : ReceiveCall(id, "direct")
    \/ \E cb \in {"ok", "raise"} : ReceiveGet(cb, "ok")
    \/ ReceiveTimeout
    \/ ChanReturn

InitLifecycle == ChanInit /\ ConnIdle /\ CodecIdle /\ CrcIdle /\ ScanIdle
SpecLifecycle == InitLifecycle /\ [][LifecycleNext]_vars

InitScanner == ScanInit /\ CodecIdle /\ CrcIdle /\ ConnIdle /\ ChanIdle
SpecScanner == InitScanner /\ [][ScanNext]_vars

InitChannel == ChanInit /\ ChanConnInit /\ CodecIdle /\ CrcIdle /\ ScanIdle
SpecChannel == InitChannel /\ [][ChanNext]_vars

\* ------------------------------------------------------------------------
\* Properties of the codec (SpecCodec, SpecCrc)
\* ------------------------------------------------------------------------

\* C1: round trip - unpacking what pack_data produced, with the same two
\* flags, returns exactly the payload that was packed, for all four flag
\* combinations.
InvRoundTrip ==
    (codec_pc = "unpacked" /\ origin = "packed") => unpacked = ReturnData(payload)

WitRoundTrip ==
    /\ codec_pc = "unpacked"
    /\ origin = "packed"
    /\ include_checksum
    /\ include_length
    /\ payload = <<255, 2>>
    /\ packet = <<0, 0, 0, 2, 255, 2, 1>>
    /\ unpacked = ReturnData(payload)

\* C2: a packed frame whose trailing checksum byte was replaced by a byte
\* other than calculate_checksum(payload) unpacks to the failure value.
InvChecksumMismatch ==
    (/\ codec_pc = "unpacked"
     /\ origin = "tampered"
     /\ tamper_byte # calculate_checksum(payload))
        => unpacked = ReturnNone

WitChecksumMismatch ==
    /\ codec_pc = "unpacked"
    /\ origin = "tampered"
    /\ payload = <<255, 2>>
    /\ tamper_byte = 2
    /\ unpacked = ReturnNone

\* Bytes taken by the fixed fields the flags declare.
FixedFieldSize(has_checksum, has_length) ==
    (IF has_length THEN 4 ELSE 0) + (IF has_checksum THEN 1 ELSE 0)

\* C3: every frame shorter than the fixed fields its flags declare (4 bytes
\* for the length, 1 for the checksum, 5 for both) is rejected with the
\* failure value.
InvRejectsShortFrames ==
    (/\ codec_pc = "unpacked"
     /\ Len(packet) < FixedFieldSize(include_checksum, include_length))
        => unpacked = ReturnNone

\* C4: unpack_data always ends by returning a payload or the failure value;
\* no exception reaches the caller, whatever the bytes and the flags.
InvUnpackNeverRaises ==
    codec_pc = "unpacked" => unpacked.kind \in {"payload", "none"}

WitUnpackNeverRaises ==
    /\ codec_pc = "unpacked"
    /\ origin = "raw"
    /\ packet = <<>>
    /\ include_checksum
    /\ ~include_length
    /\ unpacked = ReturnNone

\* Published check values for the input "123456789".
ArcCheckValue == 11 * 4096 + 11 * 256 + 3 * 16 + 13      \* 0xBB3D, CRC-16/ARC
ModbusCheckValue == 4 * 4096 + 11 * 256 + 3 * 16 + 7     \* 0x4B37, CRC-16/MODBUS

\* C5 as stated: calculate_crc16(b"123456789") is the CRC-16/ARC check
\* value 0xBB3D.
InvCrcArcCheck ==
    (crc_pc = "done" /\ crc_data = CheckInput) => crc = ArcCheckValue

\* C5 amended: calculate_crc16(b"123456789") is 0x4B37, the check value of
\* CRC-16/MODBUS (polynomial 0xA001 reflected, initial value 0xFFFF).
InvCrcModbusCheck ==
    (crc_pc = "done" /\ crc_data = CheckInput) => crc = ModbusCheckValue

WitCrcCheck ==
    /\ crc_pc = "done"
    /\ crc_data = CheckInput
    /\ crc_idx = 10

\* ------------------------------------------------------------------------
\* Properties of the Connector (SpecConnector)
\* ------------------------------------------------------------------------
Returned(t, op) == pc[t] = "done" /\ call[t].op = op

\* C6: connect on an identifier that already has a connection returns true,
\* makes no open call and leaves the map as it was; so of two connect calls
\* in a row for one identifier at most one installs a handle, and once the
\* first has returned true the second returns true without opening.
InvConnectNoOp ==
    \A t \in Threads :
        Returned(t, "connect") =>
            LET c == call[t] IN
            /\ is_connected(c.before, c.id) =>
                   /\ c.result = "true"
                   /\ ~c.raised
                   /\ c.outcomes = <<>>
                   /\ connections = c.before
            /\ (last[t].op = "connect" /\ last[t].id = c.id) =>
                   /\ last[t].installs + Installs(c.outcomes) <= 1
                   /\ last[t].result = "true" =>
                          (c.result = "true" /\ c.outcomes = <<>>)

WitConnectNoOp ==
    /\ Returned(Caller, "connect")
    /\ last[Caller].op = "connect"
    /\ last[Caller].id = call[Caller].id
    /\ last[Caller].installs = 1
    /\ last[Caller].result = "true"
    /\ call[Caller].result = "true"
    /\ call[Caller].outcomes = <<>>
    /\ connections = call[Caller].before

FirstOk(o) == CHOOSE k \in 1..Len(o) : o[k] = "ok" /\ \A j \in 1..(k - 1) : o[j] # "ok"

InvConnectNeverRaises ==
    \A t \in Threads :
        Returned(t, "connect") =>
            LET c == call[t]
                o == c.outcomes
            IN /\ ~c.raised
               /\ c.result \in {"true", "false"}
               /\ \A i \in 1..Len(o) :
                      (o[i] = "raise" /\ i < retry_count) => Len(o) > i
               /\ (\A i \in 1..Len(o) : o[i] # "ok") =>
                      (c.result = "true" <=> is_connected(c.before, c.id))
               /\ c.result = "false" => ~is_connected(connections, c.id)

WitConnectNeverRaises ==
    /\ Returned(Caller, "connect")
    /\ retry_count = 2
    /\ call[Caller].outcomes = <<"raise", "raise">>
    /\ call[Caller].result = "false"
    /\ ~call[Caller].raised
    /\ ~is_connected(connections, call[Caller].id)

\* C9: disconnect on an identifier without a connection returns false,
\* makes no transport call and leaves the map as it was.
InvDisconnectNotConnected ==
    \A t \in Threads :
        (Returned(t, "disconnect") /\ ~is_connected(call[t].before, call[t].id)) =>
            /\ call[t].result = "false"
            /\ ~call[t].raised
            /\ call[t].closes = <<>>
            /\ call[t].outcomes = <<>>
            /\ connections = call[t].before

WitDisconnectNotConnected ==
    /\ Returned(Caller, "disconnect")
    /\ ~is_connected(call[Caller].before, call[Caller].id)
    /\ call[Caller].before # EmptyMap
    /\ call[Caller].result = "false"

\* C10: disconnect on a connected identifier removes its map entry whether
\* the close succeeds or raises, lets no close error reach the caller, and
\* is_connected is false afterwards; the other entries stay.
InvDisconnectRemoves ==
    \A t \in Threads :
        (Returned(t, "disconnect") /\ is_connected(call[t].before, call[t].id)) =>
            /\ ~is_connected(connections, call[t].id)
            /\ ~call[t].raised
            /\ call[t].result \in {"true", "false"}
            /\ DOMAIN connections = DOMAIN call[t].before \ {call[t].id}
            /\ \A i \in DOMAIN connections : connections[i] = call[t].before[i]

WitDisconnectRemoves ==
    /\ Returned(Caller, "disconnect")
    /\ is_connected(call[Caller].before, call[Caller].id)
    /\ call[Caller].closes = <<"raise">>
    /\ ~is_connected(connections, call[Caller].id)


\* C11: when disconnect_all (or cleanup) returns, with no connect running
\* beside it, the map is empty and close was invoked once for every
\* connection that was in the map when the sweep started, also when some
\* of the closes failed.
InvDisconnectAll ==
    \A t \in Threads :
        (pc[t] = "done" /\ call[t].op \in SweepOps) =>
            LET c == call[t] IN
            /\ connections = EmptyMap
            /\ ~c.raised
            /\ c.todo = {}
            /\ {c.closed[i] : i \in 1..Len(c.closed)} = {c.before[i] : i \in DOMAIN c.before}
            /\ Len(c.closed) = Cardinality(DOMAIN c.before)
            /\ Len(c.closes) = Len(c.closed)

WitDisconnectAll ==
    /\ Returned(Caller, "disconnect_all")
    /\ Cardinality(DOMAIN call[Caller].before) = 2
    /\ call[Caller].closes = <<"raise", "ok">>
    /\ Len(call[Caller].closed) = 2
    /\ connections = EmptyMap

\* C12: whatever a caller adds to, removes from or replaces in the dict
\* returned by get_connections, the Connector's get_connection_count,
\* is_connected and get_connections give the same results afterwards.
PropSnapshotIsolated ==
    [][(snapshot.held /\ snapshot'.held /\ snapshot'.map # snapshot.map
            /\ snapshot'.mutated) =>
          /\ get_connection_count(connections') = get_connection_count(connections)
          /\ \A i \in Ids : is_connected(connections', i) = is_connected(connections, i)
          /\ get_connections(connections').map = get_connections(connections).map]_vars

WitSnapshotIsolated ==
    /\ snapshot.held
    /\ snapshot.mutated
    /\ connections # EmptyMap
    /\ snapshot.map = EmptyMap
    /\ pc[Caller] = "idle"

\* C13: under every interleaving of connect calls, no two transport opens
\* for one identifier are in progress at the same moment.
InvOpensSerialized ==
    \A t, u \in Threads :
        (t # u /\ pc[t] = "opening" /\ pc[u] = "opening") => call[t].id # call[u].id

\* The canonical form of an address: upper-case hex octets.
Normalize(id) == IF id = "aa:bb:cc:dd:ee:ff" THEN "AA:BB:CC:DD:EE:FF" ELSE id

SameDevice(a, b) == Normalize(a) = Normalize(b)

\* C14: connection state is keyed by the normalized identifier: once
\* connect(a) has succeeded, is_connected(b) holds for every b with the
\* same normalized form, connect(b) opens nothing, disconnect(b) removes
\* the connection, and no device has two map entries.
InvNormalizedKey ==
    /\ \A a, b \in DOMAIN connections : SameDevice(a, b) => a = b
    /\ \A t \in Threads :
          (Returned(t, "connect") /\ call[t].result = "true") =>
              \A b \in CaseIds : SameDevice(call[t].id, b) => is_connected(connections, b)
    /\ \A t \in Threads :
          (Returned(t, "connect")
             /\ \E a \in DOMAIN call[t].before : SameDevice(a, call[t].id)) =>
              call[t].outcomes = <<>>
    /\ \A t \in Threads :
          (Returned(t, "disconnect")
             /\ \E a \in DOMAIN call[t].before : SameDevice(a, call[t].id)) =>
              (call[t].result = "true"
                 /\ \A a \in DOMAIN connections : ~SameDevice(a, call[t].id))

\* ------------------------------------------------------------------------
\* Properties of the data channel (SpecSend, SpecChannel)
\* ------------------------------------------------------------------------
ChanReturned(op) == chan_pc = "done" /\ chan_call.op = op

\* C15: a send to an identifier that is not connected returns false, passes
\* no transmit step and does not invoke the data-sent callback, through
\* DataHandler.send as well as through BluetoothManager.send_data.
InvSendNotConnected ==
    (ChanReturned("send") /\ ~chan_call.connected)
        => /\ chan_call.result = "False"
           /\ chan_call.transmit = "skipped"
           /\ chan_call.cb_calls = <<>>

\* C16: with a data-sent callback registered, a send that returns true has
\* invoked the callback exactly once with its (identifier, payload), and a
\* send that returns false is one whose transmit step did not complete.
InvSentCallback ==
    (ChanReturned("send") /\ on_data_sent)
        => /\ chan_call.result = "True"
                => chan_call.cb_calls = << <<chan_call.id, chan_call.data>> >>
           /\ chan_call.result = "False"
                => chan_call.transmit # "completed"

\* C17: a receive(id) that starts while id has no listener entry returns
\* None in the same step, without entering queue.get and without changing
\* the queues, the listener entries, the histories or the observers; this
\* includes the receive that follows stop_listening(id), whatever the
\* queue held.
PropReceiveNoListener ==
    [][(chan_pc = "idle" /\ chan_call'.op = "receive"
            /\ chan_call'.id \notin receive_threads)
        => /\ chan_pc' = "done"
           /\ chan_call'.result = Absent
           /\ ~chan_call'.waited
           /\ ~chan_call'.raised
           /\ chan_call'.cb_calls = <<>>
           /\ chan_call'.mgr_cb_calls = <<>>
           /\ UNCHANGED <<receive_queues, receive_threads, enqueued, delivered,
                          on_data_sent, on_data_received, mgr_on_data_received,
                          connections>>]_vars

WitReceiveNoListener ==
    /\ ChanReturned("receive")
    /\ chan_call.via = "direct"
    /\ chan_prev.op = "stop_listening"
    /\ chan_prev.id = chan_call.id
    /\ Len(chan_prev.dropped) = 2
    /\ chan_call.result = Absent
    /\ ~chan_call.waited
    /\ chan_call.id \notin DOMAIN receive_queues

\* C18: a receive that entered queue.get returns the head it found there,
\* or None when the timeout elapsed on an empty queue, and then it has
\* removed nothing from the queue; it never leaves by an exception.
InvReceiveListening ==
    (ChanReturned("receive") /\ chan_call.waited)
        => /\ ~chan_call.raised
           /\ chan_call.head # Absent => chan_call.result = chan_call.head
           /\ chan_call.head = Absent
                => chan_call.result = Absent /\ chan_call.popped = <<>>

IsPrefix(s, t) == Len(s) <= Len(t) /\ SubSeq(t, 1, Len(s)) = s

\* C19: per device, what the receive calls returned is a prefix of what
\* the listener enqueued, and between calls what was returned followed by
\* what the queue holds is exactly what was enqueued for that device.
InvFifo ==
    \A id \in DOMAIN receive_queues :
        /\ IsPrefix(delivered[id], enqueued[id])
        /\ chan_pc = "idle" => delivered[id] \o receive_queues[id] = enqueued[id]

\* C20: with a data-received callback registered on the DataHandler, a
\* receive that returns a payload has invoked it exactly once with
\* (identifier, payload), and a receive that returns None has not invoked
\* it.
InvReceivedCallback ==
    (ChanReturned("receive") /\ on_data_received /\ ~chan_call.raised)
        => IF chan_call.result \in Data
           THEN chan_call.cb_calls = << <<chan_call.id, chan_call.result>> >>
           ELSE chan_call.cb_calls = <<>>

\* ------------------------------------------------------------------------
\* Further properties of the Connector (SpecConnector)
\* ------------------------------------------------------------------------

\* C25: ping(id) returns false when id has no connection and true when it
\* has one, and leaves the connection map as it was.
InvPing ==
    \A t \in Threads :
        Returned(t, "ping") =>
            /\ call[t].result = "true" <=> is_connected(call[t].before, call[t].id)
            /\ call[t].result \in {"true", "false"}
            /\ ~call[t].raised
            /\ connections = call[t].before

WitPing ==
    /\ Returned(Caller, "ping")
    /\ call[Caller].result = "false"
    /\ connections # EmptyMap
    /\ last[Caller].op = "ping"
    /\ last[Caller].result = "true"

\* C26: every open attempt of connect calls exactly the one back-end that
\* belongs to the host platform; on any other platform every attempt ends
\* in NotImplementedError, connect returns false and installs nothing.
InvPlatformDispatch ==
    \A t \in Threads :
        call[t].op = "connect" =>
            LET c == call[t]
            IN /\ Len(c.backends) = Len(c.outcomes)
               /\ \A i \in 1..Len(c.backends) :
                      /\ platform = "Linux" <=> c.backends[i] = "_connect_linux"
                      /\ platform = "Windows" <=> c.backends[i] = "_connect_windows"
                      /\ platform = "Darwin" <=> c.backends[i] = "_connect_macos"
               /\ platform \notin {"Linux", "Windows", "Darwin"} =>
                      /\ \A i \in 1..Len(c.outcomes) : c.outcomes[i] = "raise"
                      /\ c.result # "true"
                      /\ ~c.raised
                      /\ connections = EmptyMap
                      /\ pc[t] = "done" => c.result = "false"

WitPlatformDispatch ==
    /\ Returned(Caller, "connect")
    /\ platform = "Other"
    /\ retry_count = 3
    /\ call[Caller].backends = <<"NotImplementedError", "NotImplementedError", "NotImplementedError">>
    /\ call[Caller].result = "false"
    /\ connections = EmptyMap

\* C29: in a connect call the waits made so far are one per open attempt
\* already followed by another, never one after the last attempt of the
\* call: before an attempt there were as many waits as attempts, a wait is
\* entered only after a failed attempt that is not the final one, and a
\* call that returns after k attempts has made k-1 waits.
InvRetryWaits ==
    \A t \in Threads :
        call[t].op = "connect" =>
            LET c == call[t]
                k == Len(c.outcomes)
            IN /\ pc[t] = "opening" => c.waits = k
               /\ pc[t] = "sleep" =>
                      /\ c.waits = k - 1
                      /\ k < retry_count
                      /\ c.outcomes[k] # "ok"
               /\ pc[t] = "loop" =>
                      IF loop_continues(c.attempt, retry_count)
                      THEN c.waits = k
                      ELSE c.waits = k - 1
               /\ (pc[t] = "done" /\ k >= 1) => c.waits = k - 1
               /\ (pc[t] = "done" /\ k = 0) => c.waits = 0

WitRetryWaits ==
    /\ Returned(Caller, "connect")
    /\ retry_count = 3
    /\ call[Caller].outcomes = <<"raise", "none", "ok">>
    /\ call[Caller].waits = 2

\* ------------------------------------------------------------------------
\* Further properties of the codec (SpecCodec)
\* ------------------------------------------------------------------------

\* C30: with has_length set, a payload that unpack_data returns has as many
\* bytes as the frame's 4-byte length field says, with or without a
\* checksum.
InvLengthField ==
    (codec_pc = "unpacked" /\ include_length /\ unpacked.kind = "payload")
        => Len(unpacked.data) = from_bytes(PySlice(packet, 0, 4))

\* ------------------------------------------------------------------------
\* Properties of the DeviceScanner (SpecScanner)
\* ------------------------------------------------------------------------
InDoScan(t) == scan_pc[t] = "scanning"

\* C27: under concurrent scan calls at most one _do_scan is executing at
\* any moment.
InvOneScan ==
    \A t, u \in Threads : (InDoScan(t) /\ InDoScan(u)) => t = u

\* C28: the step in which a started scan finishes, by a returned list or by
\* an exception of the back-end, leaves the scanning flag false, and a scan
\* call is rejected only while some thread's scan is still between setting
\* the flag and its finally clause.
PropScanFlagReset ==
    [][\A t \in Threads :
          /\ (InDoScan(t) /\ scan_pc'[t] = "done") => ~scanning'
          /\ (scan_pc[t] = "idle" /\ scan_pc'[t] = "done")
                => \E u \in Threads \ {t} : InDoScan(u)]_vars

WitScanFlagReset ==
    /\ scan_pc["t1"] = "done"
    /\ scan_call["t1"].started
    /\ scan_call["t1"].raised
    /\ ~scanning
    /\ scan_pc["t2"] = "checked"

\* ------------------------------------------------------------------------
\* Properties of the listeners (SpecListener, SpecChannel)
\* ------------------------------------------------------------------------

\* C21: no step of a start_listening(id) call taken while id has a listener
\* entry changes the queues, the listener entries or the running loops,
\* also when two threads call start_listening(id) at the same time.
PropStartNoOp ==
    [][\A t \in Threads :
          LET id == IF listen_pc[t] = "idle" THEN listen_call'[t].id
                    ELSE listen_call[t].id
          IN (listen_pc'[t] # listen_pc[t] /\ id \in receive_threads)
                => UNCHANGED <<receive_queues, receive_threads, loops>>]_vars

\* C22: a step that removes the listener entry of id removes its queue with
\* all it holds, a queue that comes into being is empty, every queue holds
\* only payloads enqueued since it was created, and a receive returns
\* nothing but the head of the queue as it is then.
PropStopDiscardsQueue ==
    [][\A id \in Ids :
          /\ (id \in receive_threads /\ id \notin receive_threads')
                => id \notin DOMAIN receive_queues'
          /\ (id \notin DOMAIN receive_queues /\ id \in DOMAIN receive_queues')
                => receive_queues'[id] = <<>> /\ enqueued'[id] = <<>>
          /\ id \in DOMAIN receive_queues =>
                /\ Len(receive_queues[id]) <= Len(enqueued[id])
                /\ receive_queues[id] =
                       SubSeq(enqueued[id],
                              Len(enqueued[id]) - Len(receive_queues[id]) + 1,
                              Len(enqueued[id]))
          /\ (chan_pc = "waiting" /\ chan_pc' = "done" /\ chan_call.id = id
                /\ chan_call'.result \in Data)
                => chan_call'.result = Head(receive_queues[id])]_vars

WitStopDiscardsQueue ==
    /\ chan_prev.op = "stop_listening"
    /\ Len(chan_prev.dropped) = 2
    /\ listen_pc[Caller] = "register"
    /\ listen_call[Caller].id = chan_prev.id
    /\ chan_prev.id \in DOMAIN receive_queues
    /\ receive_queues[chan_prev.id] = <<>>

\* C23: a step in which a read error ends a loop of device id ends one loop
\* of id and leaves the listener entries, the queues with their payloads and
\* the running loops of every other device, and the connection map, as they
\* were.
PropReadErrorLocal ==
    [][\A id \in Ids :
          (loops'[id] < loops[id] /\ id \in receive_threads)
             => /\ loops'[id] = loops[id] - 1
                /\ connections' = connections
                /\ \A o \in Ids \ {id} :
                      /\ loops'[o] = loops[o]
                      /\ o \in receive_threads' <=> o \in receive_threads
                      /\ o \in DOMAIN receive_queues' <=> o \in DOMAIN receive_queues
                      /\ o \in DOMAIN receive_queues
                            => receive_queues'[o] = receive_queues[o]]_vars

WitReadErrorLocal ==
    /\ loops["00:11:22:33:44:55"] = 0
    /\ "00:11:22:33:44:55" \in receive_threads
    /\ loops["00:11:22:33:44:56"] = 1
    /\ "00:11:22:33:44:56" \in receive_threads
    /\ "00:11:22:33:44:56" \in DOMAIN receive_queues
    /\ Len(receive_queues["00:11:22:33:44:56"]) = 2

\* C24: when cleanup(id) returns, exactly the listener entry and the queue
\* of id are gone and every other device's entry and queue are as before;
\* when cleanup() returns, no listener entry and no queue is left.
InvCleanup ==
    ChanReturned("cleanup") =>
        LET arg == chan_call.id
            tb == chan_call.threads_before
            qb == chan_call.queues_before
        IN IF arg # ""
           THEN /\ receive_threads = tb \ {arg}
                /\ DOMAIN receive_queues = DOMAIN qb \ {arg}
                /\ \A o \in DOMAIN receive_queues : receive_queues[o] = qb[o]
           ELSE /\ receive_threads = {}
                /\ DOMAIN receive_queues = {}

WitCleanup ==
    /\ ChanReturned("cleanup")
    /\ chan_call.id = "00:11:22:33:44:55"
    /\ chan_call.threads_before = Ids
    /\ receive_threads = {"00:11:22:33:44:56"}
    /\ DOMAIN receive_queues = {"00:11:22:33:44:56"}
    /\ Len(receive_queues["00:11:22:33:44:56"]) = 1
    /\ Len(chan_call.queues_before["00:11:22:33:44:55"]) = 1

\* C33: at every moment at most one listener loop is running per device,
\* whatever start_listening and stop_listening calls were made.
InvOneLoop ==
    \A id \in Ids : loops[id] <= 1

\* C36: every device that has a listener entry has a running listener
\* loop.
InvListeningHasLoop ==
    \A id \in receive_threads : loops[id] > 0

\* C37: whatever a receive call removed from the queue is what it returns
\* to its caller.
InvNoPayloadLost ==
    (ChanReturned("receive") /\ chan_call.popped # <<>>)
        => /\ Len(chan_call.popped) = 1
           /\ chan_call.result = chan_call.popped[1]

\* C40: whenever no start_listening, stop_listening or cleanup call is in
\* progress, the identifiers that have a receive queue are exactly those that
\* have a listener entry.
InvQueuesMatchListeners ==
    (\A t \in Threads : listen_pc[t] = "idle")
        => DOMAIN receive_queues = receive_threads

\* ------------------------------------------------------------------------
\* Reference CRC over 16-bit registers written as the set of positions of
\* their one bits (position 0 is the least significant bit)
\* ------------------------------------------------------------------------
RECURSIVE Pow2(_)
Pow2(k) == IF k = 0 THEN 1 ELSE 2 * Pow2(k - 1)

Bits16(n) == {i \in 0..15 : (n \div Pow2(i)) % 2 = 1}

RECURSIVE BitsValue(_)
BitsValue(b) ==
    IF b = {} THEN 0
    ELSE LET i == CHOOSE j \in b : TRUE IN Pow2(i) + BitsValue(b \ {i})

RefXor(b, c) == (b \ c) \cup (c \ b)

RefShiftRight(b) == {i - 1 : i \in b \ {0}}

\* shift right by one; XOR with 0xA001 when the shifted-out bit was 1
RefBitStep(b) ==
    IF 0 \in b
    THEN RefXor(RefShiftRight(b), Bits16(10 * 4096 + 1))
    ELSE RefShiftRight(b)

RECURSIVE RefBitSteps(_, _)
RefBitSteps(b, k) == IF k = 0 THEN b ELSE RefBitSteps(RefBitStep(b), k - 1)

\* one byte: XOR it into the 16-bit register, then eight bit steps
RefCrcByte(reg, byte) ==
    IF reg \notin 0..65535 THEN -1
    ELSE BitsValue(RefBitSteps(RefXor(Bits16(reg), Bits16(byte)), 8))

\* start at 0xFFFF
RECURSIVE RefCrc16(_)
RefCrc16(data) ==
    IF data = <<>> THEN BitsValue(0..15)
    ELSE RefCrcByte(RefCrc16(SubSeq(data, 1, Len(data) - 1)), data[Len(data)])

\* C31: for every input, calculate_crc16 returns the value of the bitwise
\* reference algorithm, a value in 0..0xFFFF, and calculate_checksum of the
\* same input is the sum of its bytes modulo 256, a value in 0..255.
InvCrcMatchesReference ==
    crc_pc = "done"
        => /\ crc = RefCrc16(crc_data)
           /\ crc \in 0..65535
           /\ calculate_checksum(crc_data) = SumBytes(crc_data) % 256
           /\ calculate_checksum(crc_data) \in 0..255

WitCrcMatchesReference ==
    /\ crc_pc = "done"
    /\ crc_data = <<2, 255>>
    /\ crc = 36928
    /\ SumBytes(crc_data) = 257
    /\ calculate_checksum(crc_data) = 1

\* ------------------------------------------------------------------------
\* Transport handles under concurrent callers (SpecConnectorConc)
\* ------------------------------------------------------------------------
\* Handles a successful transport open has returned so far.
Opened == 1..(next_handle - 1)

Stored(h) == \E id \in DOMAIN connections : connections[id] = h

PassedToClose(h) == \E i \in 1..Len(closed_handles) : closed_handles[i] = h

\* The handle is held by a disconnect that has popped it and is about to
\* call close with it.
BeingClosed(h) ==
    \E t \in Threads : pc[t] \in {"closing", "sweep_close"} /\ call[t].conn = h

\* C34: every handle a successful open returned is the value stored for an
\* identifier, or has been passed to close (or is in the hands of the
\* disconnect that is closing it).
InvNoOrphanHandle ==
    \A h \in Opened : Stored(h) \/ PassedToClose(h) \/ BeingClosed(h)

\* C35: close is never called twice with the same handle.
InvCloseOnce ==
    \A i, j \in 1..Len(closed_handles) :
        i # j => closed_handles[i] # closed_handles[j]

WitCloseOnce ==
    /\ Returned("t1", "disconnect")
    /\ Returned("t2", "disconnect")
    /\ call["t1"].id = call["t2"].id
    /\ is_connected(call["t1"].before, call["t1"].id)
    /\ call["t1"].before = call["t2"].before
    /\ call["t1"].result = "true"
    /\ call["t2"].result = "true"
    /\ call["t1"].closed = <<call["t1"].before[call["t1"].id]>>
    /\ call["t2"].closed = <<>>
    /\ closed_handles = call["t1"].closed

\* ------------------------------------------------------------------------
\* BluetoothManager teardown and listener ownership (SpecManager)
\* ------------------------------------------------------------------------
\* C38: when BluetoothManager.cleanup() has returned, the Connector holds no
\* connection and every handle that was opened has been passed to close.
InvManagerTeardown ==
    Returned(Caller, "manager_cleanup")
        => /\ connections = EmptyMap
           /\ \A h \in Opened : PassedToClose(h)

\* C39: every identifier that has a listener entry or a receive queue is
\* connected.
InvListenerOnlyConnected ==
    \A id \in receive_threads \cup DOMAIN receive_queues :
        is_connected(connections, id)

\* ------------------------------------------------------------------------
\* Termination of the listener loop (SpecListenerFair)
\* ------------------------------------------------------------------------
\* A payload is added to the queue history of id in this step.
Enqueues(id) ==
    /\ id \in DOMAIN enqueued
    /\ id \in DOMAIN enqueued'
    /\ Len(enqueued'[id]) > Len(enqueued[id])

\* C32: once the listener entry of id is gone, every loop started for id
\* ends unless a later start_listening(id) stores an entry again; and a
\* payload is enqueued for id only by a running loop whose entry is present.
PropListenerStops ==
    /\ \A id \in Ids :
          (id \notin receive_threads) ~> (loops[id] = 0 \/ id \in receive_threads)
    /\ [][\A id \in Ids :
             Enqueues(id) => (loops[id] > 0 /\ id \in receive_threads)]_vars

WitListenerStops ==
    /\ chan_prev.op = "stop_listening"
    /\ Len(chan_prev.dropped) = 1
    /\ chan_prev.id \notin receive_threads
    /\ loops[chan_prev.id] = 0
    /\ \A t \in Threads : listen_pc[t] = "idle"

====
